---- MODULE Spec2Model ----
(***************************************************************************)
(* Model of the EMI calculator: src/utils/finance.ts (calculateEMI,        *)
(* generateSchedule) and the stateful part of src/App.tsx (inputs, the two *)
(* memoised derived values, fetchAiInsight).                               *)
(*                                                                         *)
(* A JavaScript number is modelled as an extended rational: a reduced      *)
(* fraction n/d (k = "fin"), an infinity (k = "inf", n = sign) or NaN      *)
(* (k = "nan").  Arithmetic on finite values is exact; the special values  *)
(* follow IEEE-754 as JavaScript exposes it (x/0, 0/0, Inf-Inf, 0*Inf,     *)
(* comparisons with NaN, Math.max with NaN).  Binary rounding of finite    *)
(* results and the sign of zero are not modelled.                          *)
(***************************************************************************)
EXTENDS Integers, Sequences, FiniteSets, TLC

\* ---------------------------------------------------------------- bounds
\* How many times the wall-clock month may advance in one behaviour.
MaxTicks == 2
\* How many generateSchedule invocations one behaviour makes.
MaxCalls == 2

\* ------------------------------------------------------- numbers (JS number)
Abs(x) == IF x < 0 THEN -x ELSE x

Sign(x) == IF x < 0 THEN -1 ELSE IF x = 0 THEN 0 ELSE 1

\* The values a JavaScript number takes in this model.  The operations below
\* are functions on Numbers, so that each is applied to evaluated operands.
Numbers == [k : {"fin", "inf", "nan"}, n : Int, d : Nat]

\* Euclid's algorithm.
GcdOf[a \in Nat, b \in Nat] == IF b = 0 THEN a ELSE GcdOf[b, a % b]

Gcd(a, b) == GcdOf[a, b]

NaN == [k |-> "nan", n |-> 0, d |-> 0]

Inf(s) == [k |-> "inf", n |-> s, d |-> 0]

\* The reduced fraction n/d, d # 0.
Rat(n, d) ==
    LET g == Gcd(Abs(n), Abs(d))
    IN  [k |-> "fin", n |-> Sign(d) * (n \div g), d |-> Abs(d) \div g]

Num(n) == [k |-> "fin", n |-> n, d |-> 1]

Zero == Num(0)

IsFinite(a) == a.k = "fin"

IsNaN(a) == a.k = "nan"

\* Sign of a non-NaN number.
SignOf(a) == Sign(a.n)

Neg(a) == [a EXCEPT !.n = -a.n]

\* a * b
MulOf[a \in Numbers, b \in Numbers] ==
    IF IsNaN(a) \/ IsNaN(b) THEN NaN
    ELSE IF IsFinite(a) /\ IsFinite(b)
         THEN LET g1 == Gcd(Abs(a.n), b.d)
                  g2 == Gcd(Abs(b.n), a.d)
              IN  [k |-> "fin",
                   n |-> (a.n \div g1) * (b.n \div g2),
                   d |-> (a.d \div g2) * (b.d \div g1)]
         ELSE IF SignOf(a) * SignOf(b) = 0 THEN NaN
              ELSE Inf(SignOf(a) * SignOf(b))

Mul(a, b) == MulOf[a, b]

\* a + b
AddOf[a \in Numbers, b \in Numbers] ==
    IF IsNaN(a) \/ IsNaN(b) THEN NaN
    ELSE IF IsFinite(a) /\ IsFinite(b)
         THEN LET g == Gcd(a.d, b.d)
                  l == (a.d \div g) * b.d
              IN  Rat(a.n * (l \div a.d) + b.n * (l \div b.d), l)
         ELSE IF IsFinite(a) THEN b
         ELSE IF IsFinite(b) THEN a
         ELSE IF a.n = b.n THEN a ELSE NaN

Add(a, b) == AddOf[a, b]

\* a - b
Sub(a, b) == Add(a, Neg(b))

\* a / b
DivOf[a \in Numbers, b \in Numbers] ==
    IF IsNaN(a) \/ IsNaN(b) THEN NaN
    ELSE IF IsFinite(b)
         THEN IF b.n = 0
              THEN IF SignOf(a) = 0 THEN NaN ELSE Inf(SignOf(a))
              ELSE IF IsFinite(a)
                   THEN Mul(a, Rat(b.d, b.n))
                   ELSE Inf(SignOf(a) * SignOf(b))
         ELSE IF IsFinite(a) THEN Zero ELSE NaN

Div(a, b) == DivOf[a, b]

\* a <= b : false when either side is NaN.
LeOf[a \in Numbers, b \in Numbers] ==
    IF IsNaN(a) \/ IsNaN(b) THEN FALSE
    ELSE IF IsFinite(a) /\ IsFinite(b) THEN SignOf(Sub(a, b)) <= 0
    ELSE IF IsFinite(a) THEN b.n > 0
    ELSE IF IsFinite(b) THEN a.n < 0
    ELSE a.n <= b.n

Le(a, b) == LeOf[a, b]

\* a < b : false when either side is NaN.
Lt(a, b) == Le(a, b) /\ a # b

\* Math.max(a, b): NaN when either argument is NaN.
MathMaxOf[a \in Numbers, b \in Numbers] ==
    IF IsNaN(a) \/ IsNaN(b) THEN NaN
    ELSE IF Le(a, b) THEN b ELSE a

MathMax(a, b) == MathMaxOf[a, b]

RECURSIVE PowNat(_, _)
PowNat(x, n) == IF n = 0 THEN Num(1) ELSE Mul(x, PowNat(x, n - 1))

\* Math.pow(x, n) for an integer exponent n.
MathPow(x, n) ==
    IF n >= 0 THEN PowNat(x, n) ELSE Div(Num(1), PowNat(x, -n))

\* ------------------------------------------------------------ Date (JS Date)
\* new Date(year, monthIndex): the month index is normalised into 0..11 and
\* the overflow carried into the year.
NewDate(year, monthIndex) ==
    [year |-> year + (monthIndex \div 12), month |-> monthIndex % 12]

\* Date.prototype.getFullYear / getMonth (0-based)
GetFullYear(date) == date.year

GetMonth(date) == date.month

\* The wall clock one month later.
NextMonth(date) == NewDate(date.year, date.month + 1)

\* --------------------------------------------------------------- finance.ts
MonthlyRate(annualRate) == Div(Div(Num(annualRate), Num(12)), Num(100))

\* The formula with the denominator's "- 1" lost.
EmiFormulaNoMinusOne(principal, monthlyRate, tenureMonths) ==
    Div(Mul(Mul(Num(principal), monthlyRate),
            MathPow(Add(Num(1), monthlyRate), tenureMonths)),
        MathPow(Add(Num(1), monthlyRate), tenureMonths))

EmiFormula(principal, monthlyRate, tenureMonths) ==
    Div(Mul(Mul(Num(principal), monthlyRate),
            MathPow(Add(Num(1), monthlyRate), tenureMonths)),
        Sub(MathPow(Add(Num(1), monthlyRate), tenureMonths), Num(1)))

TenureMonths(tenureYears) == tenureYears * 12

\* The subtraction with its operands swapped.
TotalInterestSwapped(totalPayable, principal) == Sub(Num(principal), totalPayable)

TotalInterest(totalPayable, principal) == Sub(totalPayable, Num(principal))

calculateEMI(principal, annualRate, tenureYears) ==
    LET monthlyRate   == MonthlyRate(annualRate)
        tenureMonths  == TenureMonths(tenureYears)
        emi           == EmiFormula(principal, monthlyRate, tenureMonths)
        totalPayable  == Mul(emi, Num(tenureMonths))
        totalInterest == TotalInterest(totalPayable, principal)
    IN  [monthlyEmi      |-> emi,
         totalInterest   |-> totalInterest,
         totalPayable    |-> totalPayable,
         principalAmount |-> Num(principal),
         tenureMonths    |-> tenureMonths]

\* ------------------------------------------------------------------- state
VARIABLES
    clock,        \* the wall clock: [year, month], month 0-based as in JS
    ticks,        \* how often the clock has advanced
    principal,    \* the loan under calculation: arguments of both functions
    annualRate,
    tenureYears,
    loanSummary,  \* <<>> or <<the LoanSummary calculateEMI returned>>
    pc,           \* generateSchedule's position: idle, readMonth, loop, done
    emi,          \* generateSchedule's fourth argument
    startYear,    \* locals of generateSchedule
    startMonth,
    i,
    balance,
    schedule,
    calls,        \* generateSchedule invocations started
    earlier,      \* <<>> or <<[emi, schedule]>>: the previous invocation's result
    amount,       \* App: input states
    interest,
    tenure,
    aiInsight,    \* App: AI state
    isAiLoading,
    summary,      \* App: derived states (useMemo)
    appSchedule,
    aiRequest     \* App: fetchAiInsight's position: idle or awaiting

engineVars == <<principal, annualRate, tenureYears, loanSummary, pc, emi,
                startYear, startMonth, i, balance, schedule, calls, earlier>>

appVars == <<amount, interest, tenure, aiInsight, isAiLoading, summary,
             appSchedule, aiRequest>>

vars == <<clock, ticks, engineVars, appVars>>

\* Arguments the functions are applied to.  The rates are those whose monthly
\* rate r makes (1+r)^N a fraction of small integers: -1200, 0, 600 and 1200
\* percent give 1+r = 0, 1, 3/2 and 2.  Representable keeps the combinations
\* whose exact intermediate fractions stay below 2^31.
Principals == {-60, 0, 60}

Rates == {-1200, 0, 600, 1200}

Tenures == {0, 1, 2}

Representable(p, r, t) ==
    /\ r = 600 => (t <= 1 /\ p >= 0)
    /\ (r = 1200 /\ p < 0) => t <= 1

\* Payments a caller passes to generateSchedule that calculateEMI did not
\* compute.
EmiOverrides == {Num(0), Num(100)}

Clock0 == [year |-> 2026, month |-> 10]

\* new Date() at the current instant.
Now == clock

\* The App is not mounted while the functions are exercised directly.
AppIdle ==
    /\ amount = 0 /\ interest = Zero /\ tenure = 0
    /\ aiInsight = "null" /\ isAiLoading = FALSE
    /\ summary = <<>> /\ appSchedule = <<>> /\ aiRequest = "idle"

EngineInit ==
    /\ principal \in Principals
    /\ annualRate \in Rates
    /\ tenureYears \in Tenures
    /\ Representable(principal, annualRate, tenureYears)
    /\ loanSummary = <<>>
    /\ pc = "idle"
    /\ emi = Zero
    /\ startYear = 0 /\ startMonth = 0 /\ i = 0
    /\ balance = Zero
    /\ schedule = <<>>
    /\ calls = 0
    /\ earlier = <<>>

Init ==
    /\ clock = Clock0
    /\ ticks = 0
    /\ EngineInit
    /\ AppIdle

\* Time passes: the calendar month changes.
Tick ==
    /\ ticks < MaxTicks
    /\ ticks' = ticks + 1
    /\ clock' = NextMonth(clock)
    /\ UNCHANGED <<engineVars, appVars>>

\* A caller evaluates calculateEMI(principal, annualRate, tenureYears).
CallCalculateEMI ==
    /\ pc = "idle"
    /\ loanSummary = <<>>
    /\ loanSummary' = <<calculateEMI(principal, annualRate, tenureYears)>>
    /\ UNCHANGED <<clock, ticks, principal, annualRate, tenureYears, pc, emi,
                   startYear, startMonth, i, balance, schedule, calls, earlier,
                   appVars>>

\* The payments a caller can pass: an override, or the monthlyEmi of the
\* summary it holds.
EmiChoices ==
    EmiOverrides \cup {loanSummary[k].monthlyEmi : k \in DOMAIN loanSummary}

\* generateSchedule, lines 25-30: entry, locals, first clock read.
GsEnter(e) ==
    /\ pc = "idle"
    /\ calls < MaxCalls
    /\ calls' = calls + 1
    /\ emi' = e
    /\ schedule' = <<>>
    /\ balance' = Num(principal)
    /\ startYear' = GetFullYear(Now)
    /\ pc' = "readMonth"
    /\ UNCHANGED <<clock, ticks, principal, annualRate, tenureYears,
                   loanSummary, startMonth, i, earlier, appVars>>

\* generateSchedule, line 31 and the loop initialisation: second clock read.
GsReadMonth ==
    /\ pc = "readMonth"
    /\ startMonth' = GetMonth(Now)
    /\ i' = 1
    /\ pc' = "loop"
    /\ UNCHANGED <<clock, ticks, principal, annualRate, tenureYears,
                   loanSummary, emi, startYear, balance, schedule, calls,
                   earlier, appVars>>

\* The balance with the principal portion added instead of subtracted.
NextBalanceAdded(bal, principalPaid) == MathMax(Zero, Add(bal, principalPaid))

\* The balance after one period (line 36).
NextBalance(bal, principalPaid) == MathMax(Zero, Sub(bal, principalPaid))

\* The loop stopping one period early.
LoopCondStrict(idx, totalMonths) == idx < totalMonths

\* The loop condition (line 33).
LoopCond(idx, totalMonths) == idx <= totalMonths

\* schedule.push(entry)
Push(s, entry) == Append(s, entry)

\* generateSchedule, lines 33-48: one iteration of the loop.
GsIterate ==
    /\ pc = "loop"
    /\ LoopCond(i, TenureMonths(tenureYears))
    /\ LET interestPart  == Mul(balance, MonthlyRate(annualRate))
           principalPaid == Sub(emi, interestPart)
           newBalance    == NextBalance(balance, principalPaid)
           date          == NewDate(startYear, startMonth + i)
       IN  /\ balance' = newBalance
           /\ schedule' = Push(schedule,
                               [month     |-> GetMonth(date) + 1,
                                year      |-> GetFullYear(date),
                                emi       |-> emi,
                                principal |-> principalPaid,
                                interest  |-> interestPart,
                                balance   |-> newBalance])
    /\ i' = i + 1
    /\ UNCHANGED <<clock, ticks, principal, annualRate, tenureYears,
                   loanSummary, pc, emi, startYear, startMonth, calls, earlier,
                   appVars>>

\* generateSchedule, line 50: the loop is over, the schedule is returned.
GsReturn ==
    /\ pc = "loop"
    /\ ~LoopCond(i, TenureMonths(tenureYears))
    /\ pc' = "done"
    /\ UNCHANGED <<clock, ticks, principal, annualRate, tenureYears,
                   loanSummary, emi, startYear, startMonth, i, balance,
                   schedule, calls, earlier, appVars>>

\* The caller keeps the returned schedule and is ready to call again.
CallerKeeps ==
    /\ pc = "done"
    /\ earlier' = <<[emi |-> emi, schedule |-> schedule]>>
    /\ pc' = "idle"
    /\ UNCHANGED <<clock, ticks, principal, annualRate, tenureYears,
                   loanSummary, emi, startYear, startMonth, i, balance,
                   schedule, calls, appVars>>

CallGenerateSchedule == \E e \in EmiChoices : GsEnter(e)

Next ==
    \/ Tick
    \/ CallCalculateEMI
    \/ CallGenerateSchedule
    \/ GsReadMonth
    \/ GsIterate
    \/ GsReturn
    \/ CallerKeeps

Spec == Init /\ [][Next]_vars

\* generateSchedule is synchronous code on JavaScript's single thread: once
\* entered it runs to its return statement.
FairSpec ==
    Spec /\ WF_vars(GsReadMonth) /\ WF_vars(GsIterate) /\ WF_vars(GsReturn)

\* ------------------------------------------------------------------ App.tsx
\* Positions of the three range inputs (min, initial value, max).
Amounts == {5000, 50000, 1000000}

Interests == {Num(1), Rat(15, 2), Num(25)}

TenureChoices == {1, 5, 30}

\* What the provider can do with a request.
AiOutcomes == {"text", "empty", "error"}

\* The derived values are kept by the arguments and the instant they were
\* computed from, together with the fields that are exact integers; the
\* fractional fields of these loans are not evaluated.
SummaryOf(a, r, t) ==
    [of              |-> <<a, r, t>>,
     principalAmount |-> Num(a),
     tenureMonths    |-> TenureMonths(t)]

ScheduleOf(a, r, t, monthlyEmi, now) ==
    [of         |-> <<a, r, t, monthlyEmi>>,
     startYear  |-> GetFullYear(now),
     startMonth |-> GetMonth(now),
     length     |-> TenureMonths(t)]

\* useMemo(factory, deps): the cached value unless a dependency changed.
UseMemo(cached, depsChanged, fresh) == IF depsChanged THEN fresh ELSE cached

\* One render of App with input states a, r, t (lines 34-35).
Render(a, r, t) ==
    LET newSummary == UseMemo(summary, <<a, r, t>> # <<amount, interest, tenure>>,
                              SummaryOf(a, r, t))
    IN  /\ summary' = newSummary
        /\ appSchedule' =
              UseMemo(appSchedule,
                      <<a, r, t, newSummary.of>> # <<amount, interest, tenure, summary.of>>,
                      ScheduleOf(a, r, t, newSummary.of, Now))

EngineIdle ==
    /\ principal = 0 /\ annualRate = 0 /\ tenureYears = 0
    /\ loanSummary = <<>> /\ pc = "idle" /\ emi = Zero
    /\ startYear = 0 /\ startMonth = 0 /\ i = 0 /\ balance = Zero
    /\ schedule = <<>> /\ calls = 0 /\ earlier = <<>>

\* The first render (lines 25-35).
AppInit ==
    /\ clock = Clock0
    /\ ticks = 0
    /\ EngineIdle
    /\ amount = 50000
    /\ interest = Rat(15, 2)
    /\ tenure = 5
    /\ aiInsight = "null"
    /\ isAiLoading = FALSE
    /\ summary = SummaryOf(50000, Rat(15, 2), 5)
    /\ appSchedule = ScheduleOf(50000, Rat(15, 2), 5,
                                SummaryOf(50000, Rat(15, 2), 5).of, Clock0)
    /\ aiRequest = "idle"

AppTick ==
    /\ ticks < MaxTicks
    /\ ticks' = ticks + 1
    /\ clock' = NextMonth(clock)
    /\ UNCHANGED <<engineVars, appVars>>

\* onChange of the three range inputs (lines 106, 126, 146) and the render
\* each state change causes.
SetAmount(v) ==
    /\ amount' = v
    /\ Render(v, interest, tenure)
    /\ UNCHANGED <<clock, ticks, engineVars, interest, tenure, aiInsight,
                   isAiLoading, aiRequest>>

SetInterest(v) ==
    /\ interest' = v
    /\ Render(amount, v, tenure)
    /\ UNCHANGED <<clock, ticks, engineVars, amount, tenure, aiInsight,
                   isAiLoading, aiRequest>>

SetTenure(v) ==
    /\ tenure' = v
    /\ Render(amount, interest, v)
    /\ UNCHANGED <<clock, ticks, engineVars, amount, interest, aiInsight,
                   isAiLoading, aiRequest>>

\* fetchAiInsight, lines 43-47: up to the await.  The button is disabled
\* while isAiLoading (line 75).
FetchAiInsight ==
    /\ ~isAiLoading
    /\ isAiLoading' = TRUE
    /\ aiInsight' = "null"
    /\ aiRequest' = "awaiting"
    /\ Render(amount, interest, tenure)
    /\ UNCHANGED <<clock, ticks, engineVars, amount, interest, tenure>>

\* The insight shown for an outcome (lines 51 and 54).
InsightFor(outcome) ==
    CASE outcome = "text"  -> "response.text"
      [] outcome = "empty" -> "Unable to generate insights at this time."
      [] outcome = "error" -> "Unable to fetch AI insights. Check your connection."

\* The reset placed in the try block only: skipped when the request throws.
LoadingAfterNoFinally(outcome, loading) ==
    IF outcome = "error" THEN loading ELSE FALSE

\* isAiLoading after the try statement (lines 55-57): the finally block
\* runs for every outcome.
LoadingAfter(outcome, loading) == FALSE

\* fetchAiInsight, lines 51-57: the request settles.
AiSettles(outcome) ==
    /\ aiRequest = "awaiting"
    /\ aiInsight' = InsightFor(outcome)
    /\ isAiLoading' = LoadingAfter(outcome, isAiLoading)
    /\ aiRequest' = "idle"
    /\ Render(amount, interest, tenure)
    /\ UNCHANGED <<clock, ticks, engineVars, amount, interest, tenure>>

ChangeAmount == \E v \in Amounts : SetAmount(v)

ChangeInterest == \E v \in Interests : SetInterest(v)

ChangeTenure == \E v \in TenureChoices : SetTenure(v)

RequestSettles == \E o \in AiOutcomes : AiSettles(o)

AppNext ==
    \/ AppTick
    \/ ChangeAmount
    \/ ChangeInterest
    \/ ChangeTenure
    \/ FetchAiInsight
    \/ RequestSettles

AppSpec == AppInit /\ [][AppNext]_vars

\* ------------------------------------------------------------------ claims
\* The arguments are valid in the sense of the specification.
ValidInput == principal > 0 /\ tenureYears >= 1 /\ annualRate >= 0

\* The balance before period k of the schedule built so far.
BalanceBefore(k) == IF k = 1 THEN Num(principal) ELSE schedule[k - 1].balance

\* The running invocation was given the payment calculateEMI returned for
\* the same loan.
EmiFromCalculateEMI ==
    /\ loanSummary # <<>>
    /\ emi = loanSummary[1].monthlyEmi

\* C1: calculateEMI returns no LoanSummary when principal <= 0, or
\* tenureYears <= 0, or annualRate < 0: a summary was returned only for
\* valid arguments.
C1_InvalidInputRejected ==
    loanSummary # <<>> =>
        principal > 0 /\ tenureYears > 0 /\ annualRate >= 0

\* C2: at rate 0, for principal > 0 and tenureYears >= 1, the summary has
\* monthlyEmi = principal / (12 * tenureYears) and totalInterest = 0.
C2_ZeroRateDefined ==
    (loanSummary # <<>> /\ principal > 0 /\ tenureYears >= 1 /\ annualRate = 0) =>
        /\ loanSummary[1].monthlyEmi = Rat(principal, 12 * tenureYears)
        /\ loanSummary[1].totalInterest = Zero

BalancesNonIncreasing ==
    \A k \in 1 .. Len(schedule) : Le(schedule[k].balance, BalanceBefore(k))

\* C4 as stated: for principal > 0, annualRate >= 0, tenureYears >= 1 and any
\* payment the caller supplies, the balance never increases from one entry
\* to the next (entry 1 against the principal).
C4_BalanceNonIncreasing == ValidInput => BalancesNonIncreasing

\* C4 amended: the same, for a payment that covers the first period's
\* interest: emi >= principal * monthlyRate.
C4_BalanceNonIncreasingWhenInterestCovered ==
    (ValidInput /\ Le(Mul(Num(principal), MonthlyRate(annualRate)), emi)) =>
        BalancesNonIncreasing

C4_Witness ==
    /\ pc = "done" /\ ValidInput /\ annualRate = 1200 /\ emi = Num(100)
    /\ Len(schedule) = 24
    /\ Lt(schedule[1].balance, Num(principal))
    /\ schedule[2].balance = Zero

\* C5: two invocations of generateSchedule with identical arguments return
\* identical entry sequences, labels included, whenever they happen (stated
\* for valid arguments and a finite payment).
C5_SchedulePure ==
    (pc = "done" /\ ValidInput /\ IsFinite(emi)
        /\ earlier # <<>> /\ earlier[1].emi = emi) =>
        earlier[1].schedule = schedule

\* C6: each emitted balance is max(0, previous balance - principal portion),
\* with interest portion = previous balance * monthlyRate and principal
\* portion = emi - interest portion, the balance before period 1 being the
\* principal; and every emitted balance is >= 0, for any inputs (stated for
\* valid principal, rate and tenure, with any payment a caller can pass).
C6_BalanceRecurrenceFloored ==
    ValidInput =>
        \A k \in 1 .. Len(schedule) :
            /\ schedule[k].interest =
                  Mul(BalanceBefore(k), MonthlyRate(annualRate))
            /\ schedule[k].principal = Sub(emi, schedule[k].interest)
            /\ schedule[k].balance =
                  MathMax(Zero, Sub(BalanceBefore(k), schedule[k].principal))
            /\ Le(Zero, schedule[k].balance)

\* The schedule returned holds one entry per period, entry k being the one
\* computed for period k (it carries period k's calendar label).
AllPeriodsInOrder ==
    /\ Len(schedule) = 12 * tenureYears
    /\ \A k \in 1 .. Len(schedule) :
          LET date == NewDate(startYear, startMonth + k)
          IN  /\ schedule[k].month = GetMonth(date) + 1
              /\ schedule[k].year = GetFullYear(date)

\* C7: generateSchedule always terminates, and for tenureYears >= 1 it
\* returns exactly 12 * tenureYears entries in ascending period order.
C7_TerminatesWithAllPeriods ==
    /\ [](pc = "done" /\ tenureYears >= 1 => AllPeriodsInOrder)
    /\ (pc \in {"readMonth", "loop"}) ~> (pc = "done")

C7_Witness ==
    pc = "done" /\ tenureYears = 2 /\ Len(schedule) = 24 /\ schedule[24].year = 2028

FollowingLabel(year, month) ==
    IF month = 12 THEN [year |-> year + 1, month |-> 1]
    ELSE [year |-> year, month |-> month + 1]

\* C9: the reference start year and month are those of one instant of the
\* call (when the month is read, the year read before it is still the
\* clock's year); entry k is labelled k months after that reference, every
\* month is in 1..12, each label is the calendar month following the
\* previous entry's, and the year increases by exactly 1 at the wrap (stated
\* for valid arguments).
C9_CalendarLabels ==
    /\ [][(GsReadMonth /\ ValidInput) => startYear = GetFullYear(clock)]_vars
    /\ [](pc \in {"loop", "done"} =>
            \A k \in 1 .. Len(schedule) :
                /\ schedule[k].month \in 1 .. 12
                /\ [year |-> schedule[k].year, month |-> schedule[k].month] =
                      IF k = 1
                      THEN FollowingLabel(startYear, startMonth + 1)
                      ELSE FollowingLabel(schedule[k - 1].year,
                                          schedule[k - 1].month))

\* An input change that is possible now and recomputes both derived values.
CanRecompute ==
    /\ ENABLED (\E v \in Amounts : SetAmount(v) /\ amount' # amount
                    /\ summary' # summary /\ appSchedule' # appSchedule)
    /\ ENABLED (\E v \in Interests : SetInterest(v) /\ interest' # interest
                    /\ summary' # summary /\ appSchedule' # appSchedule)
    /\ ENABLED (\E v \in TenureChoices : SetTenure(v) /\ tenure' # tenure
                    /\ summary' # summary /\ appSchedule' # appSchedule)

\* C10: no step of fetchAiInsight (its start, its settling with text, with an
\* empty response or with an error) changes the inputs, the summary or the
\* schedule; while the request is in flight the inputs can be changed and the
\* derived values recomputed; and isAiLoading is false once it has settled.
C10_AdvisoryLeavesEngineAlone ==
    /\ [][(FetchAiInsight \/ RequestSettles) =>
            UNCHANGED <<amount, interest, tenure, summary, appSchedule>>]_vars
    /\ [](aiRequest = "awaiting" => isAiLoading /\ CanRecompute)
    /\ [](aiRequest = "idle" => ~isAiLoading)

C10_Witness ==
    /\ aiRequest = "idle"
    /\ aiInsight = InsightFor("error")
    /\ amount # 50000
    /\ appSchedule.startMonth # Clock0.month

====
